---- MODULE Spec2Model ----
(***************************************************************************)
(* A model of data.py, the encoder of utfdump: it reads the rows of        *)
(* UnicodeData.txt, builds a string table, a character table and a group   *)
(* table, and writes them behind a 20 byte header.                         *)
(*                                                                         *)
(* Text is modelled as a sequence of code points, bytes as a sequence of   *)
(* numbers 0..255.                                                         *)
(***************************************************************************)
EXTENDS Integers, Sequences, FiniteSets, TLC

\* ------------------------------------------------------------------ bounds
\* The largest codepoint a row carries.
MaxCode == 4
\* The number of rows the main loop reads in the tracker specification.
MaxRows == 3
\* The number of rows the main loop reads in the field specification.
MaxFieldRows == 2
\* The number of pushes in the string table specification.
MaxPushes == 4

\* -------------------------------------------------------------------- text
\* The printable ASCII characters, code points 32..126 in order (the two
\* quotes, the backslash and the backtick are named, not written).
AsciiChars ==
  << " ", "!", "dquote", "#", "$", "%", "&", "quote", "(", ")", "*", "+", ",", "-", ".", "/",
     "0", "1", "2", "3", "4", "5", "6", "7", "8", "9", ":", ";", "<", "=", ">", "?",
     "@", "A", "B", "C", "D", "E", "F", "G", "H", "I", "J", "K", "L", "M", "N", "O",
     "P", "Q", "R", "S", "T", "U", "V", "W", "X", "Y", "Z", "[", "backslash", "]", "^", "_",
     "backtick", "a", "b", "c", "d", "e", "f", "g", "h", "i", "j", "k", "l", "m", "n", "o",
     "p", "q", "r", "s", "t", "u", "v", "w", "x", "y", "z", "{", "|", "}", "~" >>

\* The code point of a printable ASCII character.
Ord(c) == 31 + (CHOOSE i \in 1..Len(AsciiChars) : AsciiChars[i] = c)

\* A text literal: the code points of a tuple of characters.
Str(t) == [i \in 1..Len(t) |-> Ord(t[i])]

SetMin(S) == CHOOSE x \in S : \A y \in S : x <= y
SetMax(S) == CHOOSE x \in S : \A y \in S : x >= y

\* The concatenation of a sequence of sequences, by halves.
RECURSIVE Concat(_)
Concat(ss) ==
  IF Len(ss) = 0 THEN <<>>
  ELSE IF Len(ss) = 1 THEN ss[1]
  ELSE LET h == Len(ss) \div 2
       IN  Concat(SubSeq(ss, 1, h)) \o Concat(SubSeq(ss, h + 1, Len(ss)))

RECURSIVE JoinWith(_, _)
JoinWith(ss, sep) ==
  IF Len(ss) = 0 THEN <<>>
  ELSE IF Len(ss) = 1 THEN ss[1]
  ELSE ss[1] \o sep \o JoinWith(Tail(ss), sep)

\* str.isspace for one character: the ASCII whitespace and the separators
\* FS, GS, RS, US, NEL and NBSP that str.strip and str.split also drop.
IsSpace(c) == c \in {9, 10, 11, 12, 13, 28, 29, 30, 31, 32, 133, 160}

\* str.strip()
Strip(s) ==
  LET keep == {i \in 1..Len(s) : ~IsSpace(s[i])}
  IN  IF keep = {} THEN <<>> ELSE SubSeq(s, SetMin(keep), SetMax(keep))

\* str.split(sep) for a one character separator: always at least one part.
RECURSIVE SplitOn(_, _)
SplitOn(s, sep) ==
  LET at == {i \in 1..Len(s) : s[i] = sep}
  IN  IF at = {} THEN <<s>>
      ELSE LET k == SetMin(at)
           IN  <<SubSeq(s, 1, k - 1)>> \o SplitOn(SubSeq(s, k + 1, Len(s)), sep)

\* str.split(sep, 1): at most one split.
SplitOnce(s, sep) ==
  LET at == {i \in 1..Len(s) : s[i] = sep}
  IN  IF at = {} THEN <<s>>
      ELSE LET k == SetMin(at)
           IN  <<SubSeq(s, 1, k - 1), SubSeq(s, k + 1, Len(s))>>

\* str.split(): the maximal runs of non-whitespace.
RECURSIVE SplitWs(_)
SplitWs(s) ==
  LET keep == {i \in 1..Len(s) : ~IsSpace(s[i])}
  IN  IF keep = {} THEN <<>>
      ELSE LET a == SetMin(keep)
               stop == {i \in a..Len(s) : IsSpace(s[i])}
               b == IF stop = {} THEN Len(s) ELSE SetMin(stop) - 1
           IN  <<SubSeq(s, a, b)>> \o SplitWs(SubSeq(s, b + 1, Len(s)))

StartsWith(s, p) == Len(s) >= Len(p) /\ SubSeq(s, 1, Len(p)) = p
EndsWith(s, p) == Len(s) >= Len(p) /\ SubSeq(s, Len(s) - Len(p) + 1, Len(s)) = p
RemovePrefix(s, p) == IF StartsWith(s, p) THEN SubSeq(s, Len(p) + 1, Len(s)) ELSE s
RemoveSuffix(s, p) == IF EndsWith(s, p) THEN SubSeq(s, 1, Len(s) - Len(p)) ELSE s

\* str.upper() on the ASCII letters.
Upper(s) == [i \in 1..Len(s) |-> IF s[i] \in 97..122 THEN s[i] - 32 ELSE s[i]]

\* The value of one digit character, or -1.
DigitValue(c) ==
  IF c \in 48..57 THEN c - 48
  ELSE IF c \in 65..90 THEN c - 55
  ELSE IF c \in 97..122 THEN c - 87
  ELSE -1

RECURSIVE DigitsValue(_, _, _)
DigitsValue(s, base, acc) ==
  IF s = <<>> THEN acc ELSE DigitsValue(Tail(s), base, acc * base + DigitValue(Head(s)))

\* int(s, base) for an unsigned digit string: [ok, value]. A string that is
\* empty or holds a character that is no digit of the base raises ValueError.
ParseDigits(t, base) ==
  IF t # <<>> /\ \A i \in 1..Len(t) : DigitValue(t[i]) \in 0..(base - 1)
  THEN [ok |-> TRUE, value |-> DigitsValue(t, base, 0)]
  ELSE [ok |-> FALSE, value |-> 0]

ParseInt(s, base) == ParseDigits(Strip(s), base)

\* int.to_bytes(length=n, byteorder=little, signed=False): [ok, bytes];
\* a value that does not fit raises OverflowError. The numbers of this model
\* stay below 2^31, so every one of them fits four bytes.
RECURSIVE Pow256(_)
Pow256(n) == IF n = 0 THEN 1 ELSE 256 * Pow256(n - 1)

ToBytes(v, n) ==
  IF v < 0 \/ (n < 4 /\ v >= Pow256(n)) THEN [ok |-> FALSE, bytes |-> <<>>]
  ELSE [ok |-> TRUE, bytes |-> [i \in 1..n |-> (v \div Pow256(i - 1)) % 256]]

\* The number a little-endian byte string encodes (a reader of the format).
RECURSIVE FromBytes(_)
FromBytes(bs) == IF bs = <<>> THEN 0 ELSE Head(bs) + 256 * FromBytes(Tail(bs))

\* str.encode(utf-8) of one code point; a surrogate raises UnicodeEncodeError.
Utf8Char(c) ==
  IF c < 128 THEN <<c>>
  ELSE IF c < 2048 THEN <<192 + (c \div 64), 128 + (c % 64)>>
  ELSE IF c < 65536 THEN <<224 + (c \div 4096), 128 + ((c \div 64) % 64), 128 + (c % 64)>>
  ELSE <<240 + (c \div 262144), 128 + ((c \div 4096) % 64),
         128 + ((c \div 64) % 64), 128 + (c % 64)>>

IsSurrogate(c) == c \in 55296..57343

Utf8(s) ==
  IF \E i \in 1..Len(s) : IsSurrogate(s[i]) THEN [ok |-> FALSE, bytes |-> <<>>]
  ELSE [ok |-> TRUE, bytes |-> Concat([i \in 1..Len(s) |-> Utf8Char(s[i])])]

\* parse_codepoint_string: [ok, text]. int(cp, 16) raises ValueError on a
\* token that is no hexadecimal number, chr on a value above 0x10ffff.
Chars(vals) ==
  IF \A i \in 1..Len(vals) : vals[i].ok /\ vals[i].value <= 1114111
  THEN [ok |-> TRUE, text |-> [i \in 1..Len(vals) |-> vals[i].value]]
  ELSE [ok |-> FALSE, text |-> <<>>]

HexValues(toks) == [i \in 1..Len(toks) |-> ParseInt(toks[i], 16)]

parse_codepoint_string(cp_str) == Chars(HexValues(SplitWs(cp_str)))

\* ------------------------------------------------------------ enumerations
\* The members of Category, in value order: member i has value i - 1.
Category ==
  << Str(<<"L", "U">>),
     Str(<<"L", "L">>),
     Str(<<"L", "T">>),
     Str(<<"M", "N">>),
     Str(<<"M", "C">>),
     Str(<<"M", "E">>),
     Str(<<"N", "D">>),
     Str(<<"N", "L">>),
     Str(<<"N", "O">>),
     Str(<<"Z", "S">>),
     Str(<<"Z", "L">>),
     Str(<<"Z", "P">>),
     Str(<<"C", "C">>),
     Str(<<"C", "F">>),
     Str(<<"C", "S">>),
     Str(<<"C", "O">>),
     Str(<<"C", "N">>),
     Str(<<"L", "M">>),
     Str(<<"L", "O">>),
     Str(<<"P", "C">>),
     Str(<<"P", "D">>),
     Str(<<"P", "S">>),
     Str(<<"P", "E">>),
     Str(<<"P", "I">>),
     Str(<<"P", "F">>),
     Str(<<"P", "O">>),
     Str(<<"S", "M">>),
     Str(<<"S", "C">>),
     Str(<<"S", "K">>),
     Str(<<"S", "O">>) >>

\* The members of Bidi, in value order.
Bidi ==
  << Str(<<"L">>),
     Str(<<"R">>),
     Str(<<"A", "L">>),
     Str(<<"E", "N">>),
     Str(<<"E", "S">>),
     Str(<<"E", "T">>),
     Str(<<"A", "N">>),
     Str(<<"C", "S">>),
     Str(<<"N", "S", "M">>),
     Str(<<"B", "N">>),
     Str(<<"B">>),
     Str(<<"S">>),
     Str(<<"W", "S">>),
     Str(<<"O", "N">>),
     Str(<<"L", "R", "E">>),
     Str(<<"L", "R", "O">>),
     Str(<<"R", "L", "E">>),
     Str(<<"R", "L", "O">>),
     Str(<<"P", "D", "F">>),
     Str(<<"L", "R", "I">>),
     Str(<<"R", "L", "I">>),
     Str(<<"F", "S", "I">>),
     Str(<<"P", "D", "I">>) >>

\* The members of DecompKind, in value order.
DecompKind ==
  << Str(<<"N", "O", "N", "E">>),
     Str(<<"A", "N", "O", "N", "Y", "M", "O", "U", "S">>),
     Str(<<"N", "O", "B", "R", "E", "A", "K">>),
     Str(<<"C", "O", "M", "P", "A", "T">>),
     Str(<<"S", "U", "P", "E", "R">>),
     Str(<<"F", "R", "A", "C", "T", "I", "O", "N">>),
     Str(<<"S", "U", "B">>),
     Str(<<"F", "O", "N", "T">>),
     Str(<<"C", "I", "R", "C", "L", "E">>),
     Str(<<"W", "I", "D", "E">>),
     Str(<<"V", "E", "R", "T", "I", "C", "A", "L">>),
     Str(<<"S", "Q", "U", "A", "R", "E">>),
     Str(<<"I", "S", "O", "L", "A", "T", "E", "D">>),
     Str(<<"F", "I", "N", "A", "L">>),
     Str(<<"I", "N", "I", "T", "I", "A", "L">>),
     Str(<<"M", "E", "D", "I", "A", "L">>),
     Str(<<"S", "M", "A", "L", "L">>),
     Str(<<"N", "A", "R", "R", "O", "W">>) >>

\* Enum[name]: [ok, value]; a name that is no member raises KeyError.
EnumLookup(enum, name) ==
  IF \E i \in 1..Len(enum) : enum[i] = name
  THEN [ok |-> TRUE, value |-> (CHOOSE i \in 1..Len(enum) : enum[i] = name) - 1]
  ELSE [ok |-> FALSE, value |-> 0]

DecompKind_NONE == 0
DecompKind_ANONYMOUS == 1
NO_VALUE == 0
USE_PREV_VALUE == 1

Group(kind, start, end) == [kind |-> kind, start |-> start, end |-> end]

\* ------------------------------------------------------- StringTableIndex
\* The index that stands for no string, as a number.
INVALID_INDEX == 16777215

\* Mutant of from_int: the invalid index itself is let through.
from_int_inclusive(index) ==
  IF index > INVALID_INDEX THEN [ok |-> FALSE, bytes |-> <<>>]
  ELSE ToBytes(index, 3)

\* StringTableIndex.from_int: [ok, bytes]; ValueError at 0xffffff and above.
from_int(index) ==
  IF index >= INVALID_INDEX THEN [ok |-> FALSE, bytes |-> <<>>]
  ELSE ToBytes(index, 3)

\* StringTableIndex.invalid
invalid == <<255, 255, 255>>

\* ------------------------------------------------------------ StringTable
\* A string table is [elided, buf, map]: buf holds the bytes written, map the
\* offset of each string pushed. elided counts bytes at the front of the
\* buffer that are not stored in buf (entries of strings the model never
\* pushes again); it is 0 in a table built from empty.
StringTable(n) == [elided |-> n, buf |-> <<>>, map |-> <<>>]

\* len(self.__buf)
BufLen(st) == st.elided + Len(st.buf)

\* Line 90: the string is in the map.
Found(st, ix) ==
  [ok |-> ix.ok, err |-> IF ix.ok THEN "" ELSE "index_overflow", st |-> st,
   index |-> ix.bytes]

\* Lines 95 to 98: the entry is appended and its offset returned.
Extend(st, s, insert_pos, entry, ix) ==
  [ok |-> ix.ok, err |-> IF ix.ok THEN "" ELSE "index_overflow",
   st |-> [st EXCEPT !.buf = st.buf \o entry, !.map = st.map @@ (s :> insert_pos)],
   index |-> ix.bytes]

\* Mutant of InsertBytes: the length byte wraps around instead of raising.
InsertBytesWrapping(st, s, insert_pos, s_bytes, s_len_bytes) ==
  Extend(st, s, insert_pos, <<Len(s_bytes) % 256>> \o s_bytes, from_int(insert_pos))

\* Line 94: the length byte of the encoded string.
InsertBytes(st, s, insert_pos, s_bytes, s_len_bytes) ==
  IF ~s_len_bytes.ok
  THEN [ok |-> FALSE, err |-> "oversize_string", st |-> st, index |-> <<>>]
  ELSE Extend(st, s, insert_pos, s_len_bytes.bytes \o s_bytes, from_int(insert_pos))

\* Mutant of Insert: the offset taken one past the end of the buffer.
InsertOffByOne(st, s, insert_pos, s_bytes) ==
  IF ~s_bytes.ok THEN [ok |-> FALSE, err |-> "encode", st |-> st, index |-> <<>>]
  ELSE InsertBytes(st, s, insert_pos + 1, s_bytes.bytes, ToBytes(Len(s_bytes.bytes), 1))

\* Lines 92 and 93: the string is new.
Insert(st, s, insert_pos, s_bytes) ==
  IF ~s_bytes.ok THEN [ok |-> FALSE, err |-> "encode", st |-> st, index |-> <<>>]
  ELSE InsertBytes(st, s, insert_pos, s_bytes.bytes, ToBytes(Len(s_bytes.bytes), 1))

\* Mutant of push: the map is not consulted.
pushAlways(st, s) == Insert(st, s, BufLen(st), Utf8(s))

\* StringTable.push: [ok, err, st, index]. The length byte is computed
\* before the buffer is extended, the index after the map is updated.
push(st, s) ==
  IF s \in DOMAIN st.map THEN Found(st, from_int(st.map[s]))
  ELSE Insert(st, s, BufLen(st), Utf8(s))

\* StringTable.to_bytes
to_bytes(st) == st.buf

\* ------------------------------------------------------- encode_char_data
RECURSIVE BitOr(_, _)
BitOr(a, b) ==
  IF a = 0 THEN b
  ELSE IF b = 0 THEN a
  ELSE (IF a % 2 = 1 \/ b % 2 = 1 THEN 1 ELSE 0) + 2 * BitOr(a \div 2, b \div 2)

\* An Optional[int]: None, or a number.
None == [some |-> FALSE, value |-> 0]
Some(v) == [some |-> TRUE, value |-> v]

\* Mutant of flags: the bidirectional category shifted by four bits.
flags_bidi_shift4(category, bidi, decomp_kind, mirrored) ==
  BitOr(BitOr(BitOr(category % 32, (bidi % 32) * 16), (decomp_kind % 32) * 1024),
        (IF mirrored THEN 1 ELSE 0) * 32768)

\* The packed two bytes: category, bidi, decomposition kind, mirrored.
flags(category, bidi, decomp_kind, mirrored) ==
  BitOr(BitOr(BitOr(category % 32, (bidi % 32) * 32), (decomp_kind % 32) * 1024),
        (IF mirrored THEN 1 ELSE 0) * 32768)

\* Mutant of digit_vals: None read as 0.
digit_vals_none_zero(decimal_digit, digit) ==
  BitOr((IF decimal_digit.some THEN decimal_digit.value ELSE 0) % 16,
        ((IF digit.some THEN digit.value ELSE 0) * 16) % 16)

\* The last byte: (decimal_digit & 0xf) | ((digit << 4) & 0xf), None read as 0xf.
digit_vals(decimal_digit, digit) ==
  LET dd == IF decimal_digit.some THEN decimal_digit.value ELSE 15
      d == IF digit.some THEN digit.value ELSE 15
  IN  BitOr(dd % 16, (d * 16) % 16)

\* encode_char_data: [ok, bytes], 28 bytes. combining.to_bytes raises
\* OverflowError above 255.
encode_char_data(code, name, category, combining, bidi, decomp_kind, decomp, decimal_digit, digit, numeric_value, mirrored, old_name, comment, uppercase, lowercase, titlecase) ==
  LET fl == ToBytes(flags(category, bidi, decomp_kind, mirrored), 2)
      cb == ToBytes(combining, 1)
      dv == ToBytes(digit_vals(decimal_digit, digit), 1)
      encoded == fl.bytes \o name \o decomp \o numeric_value \o old_name \o comment
                 \o uppercase \o lowercase \o titlecase \o cb.bytes \o dv.bytes
  IN  [ok |-> fl.ok /\ cb.ok /\ dv.ok /\ Len(encoded) = 28, bytes |-> encoded]

\* ------------------------------------------------------------------ state
VARIABLES
  rows,               \* the rows the main loop has read so far, in order
  char_data_table,    \* bytes of the character table
  string_table,       \* the StringTable
  groups,             \* the list of Group
  in_group,           \* the previous row opened a range
  prev_code,          \* codepoint of the previous row, NoCode before the first
  group_table,        \* bytes of the group table
  cumulative_offset,  \* running total of the group lengths serialized
  group_pos,          \* number of groups the serialization loop has handled
  encoded_data,       \* the container
  out_file,           \* the writes made to out_data_path, in order
  pc,                 \* "rows", "groups", "assemble", "write", "done", "failed"
  err,                \* why the run failed, "" while it has not
  record_codes,       \* history: codepoint of each row that added a record
  returned,           \* history: [s, index] of each push made on its own
  packed              \* the last call of flags made on its own, its result in word

vars == <<rows, char_data_table, string_table, groups, in_group, prev_code,
          group_table, cumulative_offset, group_pos, encoded_data, out_file,
          pc, err, record_codes, returned, packed>>

\* prev_code = None
NoCode == -1

\* No call of flags made yet.
NotPacked ==
  [called |-> FALSE, category |-> 0, bidi |-> 0, decomp_kind |-> 0,
   mirrored |-> FALSE, word |-> 0]

\* --------------------------------------------------------------- main loop
\* [cell.strip() for cell in row.split(';')]
Cells(row) ==
  LET parts == SplitOn(row, Ord(";"))
  IN  [i \in 1..Len(parts) |-> Strip(parts[i])]

\* Mutant of IsLast: any name in angle brackets.
IsLastAnyMarker(cell_name) ==
  StartsWith(cell_name, Str(<<"<">>)) /\ EndsWith(cell_name, Str(<<">">>))

\* cell_name.startswith('<') and cell_name.endswith(', Last>')
IsLast(cell_name) ==
  StartsWith(cell_name, Str(<<"<">>))
  /\ EndsWith(cell_name, Str(<<",", " ", "L", "a", "s", "t", ">">>))

\* cell_name.startswith('<') and cell_name.endswith(', First>')
IsFirst(cell_name) ==
  StartsWith(cell_name, Str(<<"<">>))
  /\ EndsWith(cell_name, Str(<<",", " ", "F", "i", "r", "s", "t", ">">>))

\* Mutant of BareName: the marker is left on the name.
BareNameKeepsMarker(cell_name) == cell_name

\* cell_name.removeprefix('<').removesuffix(', First>')
BareName(cell_name) ==
  RemoveSuffix(RemovePrefix(cell_name, Str(<<"<">>)),
               Str(<<",", " ", "F", "i", "r", "s", "t", ">">>))

\* Mutants of RangeGroup: the end left out of the group; the group started
\* at the First row.
RangeGroupShortEnd(prev, code) == Group(USE_PREV_VALUE, prev + 1, code - 1)
RangeGroupFromFirst(prev, code) == Group(USE_PREV_VALUE, prev, code)

\* The group a Last row closes.
RangeGroup(prev, code) == Group(USE_PREV_VALUE, prev + 1, code)

\* Mutants of GapGroup: the gap run up to the row; the gap started at the
\* previous row.
GapGroupToCode(prev, code) == Group(NO_VALUE, prev + 1, code)
GapGroupFromPrev(prev, code) == Group(NO_VALUE, prev, code - 1)

\* The group of the codepoints between two rows.
GapGroup(prev, code) == Group(NO_VALUE, prev + 1, code - 1)

\* Mutant of Ordered: a repeated codepoint is let through.
OrderedOrEqual(prev, code) == prev = NoCode \/ prev <= code

\* Line 305: prev_code is None or prev_code < code.
Ordered(prev, code) == prev = NoCode \/ prev < code

\* The statements of the loop body after the name is pushed, in order: a
\* step is a value that may raise (check), a push, or an invalid index.
Check(ok, e) == [t |-> "check", ok |-> ok, err |-> e, s |-> <<>>]
PushOf(s) == [t |-> "push", ok |-> TRUE, err |-> "", s |-> s]
Absent == [t |-> "invalid", ok |-> TRUE, err |-> "", s |-> <<>>]

\* if cell: string_table.push(cell) else: StringTableIndex.invalid()
OptPush(cell) == IF cell = <<>> THEN <<Absent>> ELSE <<PushOf(cell)>>

\* if cell: string_table.push(parse_codepoint_string(cell)) else: invalid()
ParsedPush(p) == <<Check(p.ok, "malformed_row"), PushOf(p.text)>>

OptParsedPush(cell) ==
  IF cell = <<>> THEN <<Absent>> ELSE ParsedPush(parse_codepoint_string(cell))

\* [decomp_kind_str, decomp_str] = the two stripped parts around the first
\* closing bracket; ValueError when there is none.
TaggedDecomp(raw) ==
  IF Len(raw) # 2
  THEN [split_ok |-> FALSE, kind |-> [ok |-> FALSE, value |-> 0],
        text |-> [ok |-> FALSE, text |-> <<>>]]
  ELSE [split_ok |-> TRUE, kind |-> EnumLookup(DecompKind, Upper(Strip(raw[1]))),
        text |-> parse_codepoint_string(Strip(raw[2]))]

\* The decomposition cell: [split_ok, kind: [ok, value], text: [ok, text]].
Decomp(cell_decomp) ==
  IF cell_decomp = <<>>
  THEN [split_ok |-> TRUE, kind |-> [ok |-> TRUE, value |-> DecompKind_NONE],
        text |-> [ok |-> TRUE, text |-> <<>>]]
  ELSE IF StartsWith(cell_decomp, Str(<<"<">>))
  THEN TaggedDecomp(SplitOnce(RemovePrefix(cell_decomp, Str(<<"<">>)), Ord(">")))
  ELSE [split_ok |-> TRUE, kind |-> [ok |-> TRUE, value |-> DecompKind_ANONYMOUS],
        text |-> parse_codepoint_string(cell_decomp)]

DecompChecks(d) ==
  <<Check(d.split_ok, "malformed_row"), Check(d.kind.ok, "unknown_token"),
    Check(d.text.ok, "malformed_row"), PushOf(d.text.text)>>

DecompSteps(cell_decomp) ==
  IF cell_decomp = <<>> THEN <<Absent>> ELSE DecompChecks(Decomp(cell_decomp))

\* if cell: int(cell, 10) else: None, as [ok, value: Optional[int]]
SomeDigit(p) == [ok |-> p.ok, value |-> Some(p.value)]

OptDigit(cell) ==
  IF cell = <<>> THEN [ok |-> TRUE, value |-> None] ELSE SomeDigit(ParseInt(cell, 10))

\* Run the steps in order from string table st: [ok, err, st, idxs]; the
\* first step that raises ends the run with the table as it then is.
RECURSIVE RunSteps(_, _, _)
Pushed(r, steps, idxs) ==
  IF r.ok THEN RunSteps(r.st, steps, Append(idxs, r.index))
  ELSE [ok |-> FALSE, err |-> r.err, st |-> r.st, idxs |-> idxs]

RunSteps(st, steps, idxs) ==
  IF steps = <<>> THEN [ok |-> TRUE, err |-> "", st |-> st, idxs |-> idxs]
  ELSE LET h == Head(steps)
       IN  IF h.t = "check"
           THEN IF h.ok THEN RunSteps(st, Tail(steps), idxs)
                ELSE [ok |-> FALSE, err |-> h.err, st |-> st, idxs |-> idxs]
           ELSE IF h.t = "invalid"
           THEN RunSteps(st, Tail(steps), Append(idxs, invalid))
           ELSE Pushed(push(st, h.s), Tail(steps), idxs)

\* The steps of one row that adds a record, lines 326 to 396.
RowSteps(c) ==
  <<PushOf(IF IsFirst(c[2]) THEN BareName(c[2]) ELSE c[2])>>
  \o <<Check(EnumLookup(Category, Upper(c[3])).ok, "unknown_token"),
       Check(ParseInt(c[4], 10).ok, "malformed_row"),
       Check(EnumLookup(Bidi, Upper(c[5])).ok, "unknown_token")>>
  \o DecompSteps(c[6])
  \o <<Check(OptDigit(c[7]).ok, "malformed_row"),
       Check(OptDigit(c[8]).ok, "malformed_row")>>
  \o OptPush(c[9])
  \o OptPush(c[11])
  \o OptPush(c[12])
  \o OptParsedPush(c[13])
  \o OptParsedPush(c[14])
  \o OptParsedPush(c[15])

\* The record of a row whose steps all succeeded, with indices idxs.
RowRecord(code, c, idxs) ==
  encode_char_data(code, idxs[1], EnumLookup(Category, Upper(c[3])).value,
                   ParseInt(c[4], 10).value, EnumLookup(Bidi, Upper(c[5])).value,
                   Decomp(c[6]).kind.value, idxs[2], OptDigit(c[7]).value,
                   OptDigit(c[8]).value, idxs[3], c[10] = Str(<<"Y">>), idxs[4],
                   idxs[5], idxs[6], idxs[7], idxs[8])

\* The state the loop body leaves: the program's variables by name, with pc
\* "failed" and the reason in err when a statement raised.
Leave(p, e, g, ig, pv, st, cdt, rc) ==
  [pc |-> p, err |-> e, groups |-> g, in_group |-> ig, prev_code |-> pv,
   string_table |-> st, char_data_table |-> cdt, record_codes |-> rc]

Fail(e, g, ig, pv, st) == Leave("failed", e, g, ig, pv, st, char_data_table, record_codes)

\* Lines 398 to 415: the record is appended.
BodyAppend(code, g, ig, st, enc) ==
  IF ~enc.ok THEN Fail("combining_range", g, ig, code, st)
  ELSE Leave("rows", "", g, ig, code, st, char_data_table \o enc.bytes,
             Append(record_codes, code))

\* Lines 326 to 396 have run, with outcome run. in_group is set on line 328,
\* once the push of the name has returned.
BodyRecord(c, code, g, ig, run) ==
  IF ~run.ok THEN Fail(run.err, g, ig /\ run.idxs # <<>>, code, run.st)
  ELSE BodyAppend(code, g, ig, run.st, RowRecord(code, c, run.idxs))

\* Lines 305 to 330, on the cells c of a row with codepoint code.
BodyTrack(c, code) ==
  IF ~Ordered(prev_code, code)
  THEN Fail("ordering", groups, in_group, prev_code, string_table)
  ELSE IF in_group /\ ~IsLast(c[2])
  THEN Fail("range_schema", groups, in_group, prev_code, string_table)
  ELSE IF in_group
  THEN Leave("rows", "", Append(groups, RangeGroup(prev_code, code)), FALSE, code,
             string_table, char_data_table, record_codes)
  ELSE BodyRecord(c, code,
                  IF prev_code # NoCode /\ code > prev_code + 1
                  THEN Append(groups, GapGroup(prev_code, code)) ELSE groups,
                  IsFirst(c[2]),
                  RunSteps(string_table, RowSteps(c), <<>>))

\* Line 303: code = int(cell_code, 16).
BodyCode(c, code) ==
  IF ~code.ok THEN Fail("malformed_row", groups, in_group, prev_code, string_table)
  ELSE BodyTrack(c, code.value)

\* Lines 283 to 299: the row is unpacked into 15 cells.
BodyCells(c) ==
  IF Len(c) # 15 THEN Fail("malformed_row", groups, in_group, prev_code, string_table)
  ELSE BodyCode(c, ParseInt(c[1], 16))

\* One iteration of the main loop on row, lines 280 to 415: the state it
\* leaves. (uniq_vals, line 301, is written and never read: it is left out.)
Body(row) == BodyCells(Cells(row))

\* ------------------------------------------------------------------ inputs
\* A row of UnicodeData.txt: its cells joined by semicolons.
MkRow(cells) == JoinWith(cells, Str(<<";">>))

HexDigit(d) == IF d < 10 THEN 48 + d ELSE 55 + d

\* A codepoint cell: four hexadecimal digits.
HexCell(n) ==
  <<HexDigit((n \div 4096) % 16), HexDigit((n \div 256) % 16),
    HexDigit((n \div 16) % 16), HexDigit(n % 16)>>

\* The cells after the codepoint of the rows the tracker specification reads:
\* an ordinary row.
PlainCells ==
  <<Str(<<"A">>), Str(<<"L", "u">>), Str(<<"0">>), Str(<<"L">>), <<>>, <<>>, <<>>, <<>>, Str(<<"N">>), <<>>, <<>>, <<>>, <<>>, <<>>>>
\* a row that opens a range.
FirstCells ==
  <<Str(<<"<", "X", ",", " ", "F", "i", "r", "s", "t", ">">>), Str(<<"L", "o">>), Str(<<"0">>), Str(<<"L">>), <<>>, <<>>, <<>>, <<>>, Str(<<"N">>), <<>>, <<>>, <<>>, <<>>, <<>>>>
\* a row that closes a range.
LastCells ==
  <<Str(<<"<", "X", ",", " ", "L", "a", "s", "t", ">">>), Str(<<"L", "o">>), Str(<<"0">>), Str(<<"L">>), <<>>, <<>>, <<>>, <<>>, Str(<<"N">>), <<>>, <<>>, <<>>, <<>>, <<>>>>
\* a row with most cells filled.
RichCells ==
  <<Str(<<"B">>), Str(<<"N", "d">>), Str(<<"0">>), Str(<<"E", "N">>), Str(<<"<", "c", "o", "m", "p", "a", "t", ">", " ", "0", "0", "3", "2", " ", "0", "0", "2", "0">>), Str(<<"2">>), Str(<<"2">>), Str(<<"2">>), Str(<<"N">>), Str(<<"O", "L", "D">>), <<>>, Str(<<"0", "0", "4", "1">>), <<>>, Str(<<"0", "0", "4", "1">>)>>
\* a row with an unknown category.
BadCategoryCells ==
  <<Str(<<"C">>), Str(<<"X", "x">>), Str(<<"0">>), Str(<<"L">>), <<>>, <<>>, <<>>, <<>>, Str(<<"N">>), <<>>, <<>>, <<>>, <<>>, <<>>>>

\* a row whose name does not fit the length byte of the string table.
LongNameCells ==
  <<[i \in 1..256 |-> 97], Str(<<"L", "u">>), Str(<<"0">>), Str(<<"L">>), <<>>, <<>>, <<>>, <<>>, Str(<<"N">>), <<>>, <<>>, <<>>, <<>>, <<>>>>

TrackerCells ==
  {PlainCells, FirstCells, LastCells, RichCells, BadCategoryCells, LongNameCells}

\* The rows the tracker specification reads: every codepoint up to MaxCode
\* with every cell choice, a row with an unreadable codepoint and a row one
\* cell short.
TrackerRows ==
  {MkRow(<<HexCell(n)>> \o cells) : n \in 0..MaxCode, cells \in TrackerCells}
  \cup {MkRow(<<Str(<<"z">>)>> \o PlainCells), MkRow(PlainCells)}

\* The cells after the codepoint of the rows the field specification reads:
\* the optional cells empty and filled in turn, text shared between cells,
\* and cells that do not parse.
FieldCells ==
  { <<Str(<<"A">>), Str(<<"L", "u">>), Str(<<"0">>), Str(<<"L">>), <<>>, <<>>, <<>>, <<>>, Str(<<"N">>), <<>>, <<>>, <<>>, <<>>, <<>>>>,
    <<Str(<<"B">>), Str(<<"N", "d">>), Str(<<"0">>), Str(<<"E", "N">>), <<>>, Str(<<"7">>), Str(<<"7">>), Str(<<"7">>), Str(<<"N">>), <<>>, <<>>, <<>>, <<>>, <<>>>>,
    <<Str(<<"C">>), Str(<<"N", "o">>), Str(<<"0">>), Str(<<"E", "N">>), <<>>, <<>>, Str(<<"3">>), Str(<<"3">>), Str(<<"N">>), <<>>, <<>>, <<>>, <<>>, <<>>>>,
    <<Str(<<"D">>), Str(<<"N", "o">>), Str(<<"0">>), Str(<<"O", "N">>), <<>>, Str(<<"5">>), <<>>, Str(<<"1", "/", "2">>), Str(<<"Y">>), <<>>, <<>>, <<>>, <<>>, <<>>>>,
    <<Str(<<"E">>), Str(<<"L", "l">>), Str(<<"2", "3", "0">>), Str(<<"L">>), Str(<<"<", "c", "o", "m", "p", "a", "t", ">", " ", "0", "0", "3", "2", " ", "0", "0", "2", "0">>), <<>>, <<>>, <<>>, Str(<<"N">>), Str(<<"O", "L", "D">>), Str(<<"C", "M", "T">>), Str(<<"0", "0", "4", "1">>), Str(<<"0", "0", "6", "1">>), Str(<<"0", "0", "4", "1">>)>>,
    <<Str(<<"A">>), Str(<<"L", "u">>), Str(<<"0">>), Str(<<"L">>), Str(<<"0", "0", "4", "1">>), <<>>, <<>>, Str(<<"A">>), Str(<<"N">>), Str(<<"A">>), Str(<<"A">>), Str(<<"0", "0", "4", "1">>), <<>>, <<>>>>,
    <<Str(<<"F">>), Str(<<"L", "m">>), Str(<<"0">>), Str(<<"L">>), Str(<<"<", "s", "u", "p", "e", "r", ">">>), <<>>, <<>>, <<>>, Str(<<"N">>), <<>>, <<>>, <<>>, <<>>, <<>>>>,
    <<Str(<<"G">>), Str(<<"L", "u">>), Str(<<"0">>), Str(<<"L">>), Str(<<"0", "0", "4", "7">>), Str(<<"9">>), Str(<<"0">>), <<>>, Str(<<"N">>), <<>>, <<>>, <<>>, Str(<<"0", "0", "6", "7">>), <<>>>>,
    <<Str(<<"H">>), Str(<<"X", "x">>), Str(<<"0">>), Str(<<"L">>), <<>>, <<>>, <<>>, <<>>, Str(<<"N">>), <<>>, <<>>, <<>>, <<>>, <<>>>>,
    <<Str(<<"I">>), Str(<<"L", "u">>), Str(<<"0">>), Str(<<"L">>), <<>>, Str(<<"x">>), <<>>, <<>>, Str(<<"N">>), <<>>, <<>>, <<>>, <<>>, <<>>>>,
    <<Str(<<"J">>), Str(<<"L", "u">>), Str(<<"2", "5", "6">>), Str(<<"L">>), <<>>, <<>>, <<>>, <<>>, Str(<<"N">>), <<>>, <<>>, <<>>, <<>>, <<>>>>,
    <<Str(<<"K">>), Str(<<"L", "u">>), Str(<<"0">>), Str(<<"L">>), <<>>, <<>>, <<>>, <<>>, Str(<<"N">>), <<>>, <<>>, Str(<<"D", "8", "0", "0">>), <<>>, <<>>>>,
    <<Str(<<"L">>), Str(<<"L", "u">>), Str(<<"0">>), Str(<<"L">>), <<>>, <<>>, <<>>, <<>>, Str(<<"N">>), <<>>, <<>>, Str(<<"1", "1", "0", "0", "0", "0">>), <<>>, <<>>>>,
    <<Str(<<"M">>), Str(<<"L", "u">>), Str(<<"0">>), Str(<<"L">>), Str(<<"<", "b", "o", "g", "u", "s", ">", " ", "0", "0", "4", "1">>), <<>>, <<>>, <<>>, Str(<<"N">>), <<>>, <<>>, <<>>, <<>>, <<>>>> }

FieldCodes == {1, 2, 3}

FieldRows == {MkRow(<<HexCell(n)>> \o cells) : n \in FieldCodes, cells \in FieldCells}

\* The sizes of the string table the field and string table specifications
\* start from: empty, and two and six bytes short of the invalid index.
StartSizes == {0, INVALID_INDEX - 6, INVALID_INDEX - 2}

\* The strings the string table specification pushes: empty, one and two
\* bytes, a two byte character, and 255 and 256 bytes.
PoolStrings ==
  {<<>>, Str(<<"A">>), Str(<<"A", "B">>), <<233>>,
   [i \in 1..255 |-> 97], [i \in 1..256 |-> 97]}

\* ---------------------------------------------------------------- actions
InitWith(st) ==
  /\ rows = <<>>
  /\ char_data_table = <<>>
  /\ string_table = st
  /\ groups = <<>>
  /\ in_group = FALSE
  /\ prev_code = NoCode
  /\ group_table = <<>>
  /\ cumulative_offset = 0
  /\ group_pos = 0
  /\ encoded_data = <<>>
  /\ out_file = <<>>
  /\ pc = "rows"
  /\ err = ""
  /\ record_codes = <<>>
  /\ returned = <<>>
  /\ packed = NotPacked

\* Lines 268 to 272: the tables are empty before the first row.
Init == InitWith(StringTable(0))

\* The main loop reads row: lines 280 to 415.
Become(row, b) ==
  /\ rows' = Append(rows, row)
  /\ pc' = b.pc
  /\ err' = b.err
  /\ groups' = b.groups
  /\ in_group' = b.in_group
  /\ prev_code' = b.prev_code
  /\ string_table' = b.string_table
  /\ char_data_table' = b.char_data_table
  /\ record_codes' = b.record_codes
  /\ UNCHANGED <<group_table, cumulative_offset, group_pos, encoded_data,
                 out_file, returned, packed>>

ReadRow(row) == pc = "rows" /\ Become(row, Body(row))

RowStep == Len(rows) < MaxRows /\ \E row \in TrackerRows : ReadRow(row)

\* The rows are exhausted: lines 417 and 418.
EndOfInput ==
  /\ pc = "rows"
  /\ pc' = "groups"
  /\ group_table' = <<>>
  /\ cumulative_offset' = 0
  /\ group_pos' = 0
  /\ UNCHANGED <<rows, char_data_table, string_table, groups, in_group, prev_code,
                 encoded_data, out_file, err, record_codes, returned, packed>>

\* Mutant of group_table_entry: the offset written counts the group itself.
group_table_entry_inclusive(group, offset) ==
  [ok |-> TRUE,
   bytes |-> ToBytes(group.start, 4).bytes \o ToBytes(group.end, 4).bytes
             \o ToBytes(offset + (group.end - group.start) + 1, 4).bytes
             \o ToBytes(group.kind, 1).bytes]

\* The 13 bytes of one group: [ok, bytes].
group_table_entry(group, offset) ==
  LET s == ToBytes(group.start, 4)
      e == ToBytes(group.end, 4)
      o == ToBytes(offset, 4)
      k == ToBytes(group.kind, 1)
      entry == s.bytes \o e.bytes \o o.bytes \o k.bytes
  IN  [ok |-> s.ok /\ e.ok /\ o.ok /\ k.ok /\ Len(entry) = 13, bytes |-> entry]

\* Mutant of NextOffset: the end taken as exclusive.
NextOffsetExclusive(offset, group) == offset + (group.end - group.start)

\* cumulative_offset += (group.end() - group.start()) + 1
NextOffset(offset, group) == offset + (group.end - group.start) + 1

\* One iteration of the group loop: lines 420 to 431.
SerializeGroup ==
  /\ pc = "groups"
  /\ group_pos < Len(groups)
  /\ LET group == groups[group_pos + 1]
         entry == group_table_entry(group, cumulative_offset)
     IN  IF entry.ok
         THEN /\ group_table' = group_table \o entry.bytes
              /\ cumulative_offset' = NextOffset(cumulative_offset, group)
              /\ group_pos' = group_pos + 1
              /\ UNCHANGED <<pc, err>>
         ELSE /\ pc' = "failed"
              /\ err' = "overflow"
              /\ UNCHANGED <<group_table, cumulative_offset, group_pos>>
  /\ UNCHANGED <<rows, char_data_table, string_table, groups, in_group, prev_code,
                 encoded_data, out_file, record_codes, returned, packed>>

\* Mutant of Container: the first two length fields in the other order.
ContainerSwapped(gt, cdt, st) ==
  [ok |-> TRUE,
   bytes |-> Str(<<"U", "T", "F", "D", "U", "M", "P", "!">>)
             \o ToBytes(Len(cdt), 4).bytes \o ToBytes(Len(gt), 4).bytes
             \o ToBytes(Len(st), 4).bytes \o gt \o cdt \o st]

\* The container: [ok, bytes], lines 433 to 442.
Container(gt, cdt, st) ==
  LET g == ToBytes(Len(gt), 4)
      c == ToBytes(Len(cdt), 4)
      s == ToBytes(Len(st), 4)
  IN  [ok |-> g.ok /\ c.ok /\ s.ok,
       bytes |-> Str(<<"U", "T", "F", "D", "U", "M", "P", "!">>)
                 \o g.bytes \o c.bytes \o s.bytes \o gt \o cdt \o st]

\* The group loop is over; the container is assembled.
Assemble ==
  /\ pc = "groups"
  /\ group_pos = Len(groups)
  /\ LET c == Container(group_table, char_data_table, to_bytes(string_table))
     IN  IF c.ok
         THEN /\ encoded_data' = c.bytes
              /\ pc' = "write"
              /\ err' = err
         ELSE /\ pc' = "failed"
              /\ err' = "overflow"
              /\ UNCHANGED encoded_data
  /\ UNCHANGED <<rows, char_data_table, string_table, groups, in_group, prev_code,
                 group_table, cumulative_offset, group_pos, out_file,
                 record_codes, returned, packed>>

\* gzip.compress, a reversible transform this model does not look into.
compress(data) == [gzip |-> data]

\* Mutant of WriteOut: the file is written after a failure too.
WriteOutAfterFailure ==
  /\ pc \in {"write", "failed"}
  /\ out_file' = Append(out_file, compress(encoded_data))
  /\ pc' = "done"
  /\ UNCHANGED <<rows, char_data_table, string_table, groups, in_group, prev_code,
                 group_table, cumulative_offset, group_pos, encoded_data, err,
                 record_codes, returned, packed>>

\* Lines 444 to 451.
WriteOut ==
  /\ pc = "write"
  /\ out_file' = Append(out_file, compress(encoded_data))
  /\ pc' = "done"
  /\ UNCHANGED <<rows, char_data_table, string_table, groups, in_group, prev_code,
                 group_table, cumulative_offset, group_pos, encoded_data, err,
                 record_codes, returned, packed>>

Next == RowStep \/ EndOfInput \/ SerializeGroup \/ Assemble \/ WriteOut

Spec == Init /\ [][Next]_vars

\* --------------------------------------------- the main loop, cell by cell
\* The loop seen from a row boundary, with any number of bytes already in
\* the string table.
InitFields == \E n \in StartSizes : InitWith(StringTable(n))

FieldRowStep == Len(rows) < MaxFieldRows /\ \E row \in FieldRows : ReadRow(row)

NextFields == FieldRowStep

SpecFields == InitFields /\ [][NextFields]_vars

\* -------------------------------------------------- the string table alone
InitPool == \E n \in StartSizes : InitWith(StringTable(n))

\* A push of s came back as r.
Return(s, r) ==
  /\ string_table' = r.st
  /\ IF r.ok
     THEN /\ returned' = Append(returned, [s |-> s, index |-> r.index])
          /\ UNCHANGED <<pc, err>>
     ELSE /\ pc' = "failed"
          /\ err' = r.err
          /\ UNCHANGED returned

\* One call of StringTable.push, lines 88 to 98.
PushStep ==
  /\ pc = "rows"
  /\ Len(returned) < MaxPushes
  /\ \E s \in PoolStrings : Return(s, push(string_table, s))
  /\ UNCHANGED <<rows, char_data_table, groups, in_group, prev_code, group_table,
                 cumulative_offset, group_pos, encoded_data, out_file, record_codes,
                 packed>>

NextPool == PushStep

SpecPool == InitPool /\ [][NextPool]_vars

\* ------------------------------------------------------------ flags alone
InitFlags == InitWith(StringTable(0))

\* The one call of the packing of lines 227 to 231 a run of this
\* specification makes, on a member of each enumeration and a boolean.
FlagsStep ==
  /\ pc = "rows"
  /\ ~packed.called
  /\ \E category \in 0..(Len(Category) - 1), bidi \in 0..(Len(Bidi) - 1),
        decomp_kind \in 0..(Len(DecompKind) - 1), mirrored \in BOOLEAN :
       packed' = [called |-> TRUE, category |-> category, bidi |-> bidi,
                  decomp_kind |-> decomp_kind, mirrored |-> mirrored,
                  word |-> flags(category, bidi, decomp_kind, mirrored)]
  /\ UNCHANGED <<rows, char_data_table, string_table, groups, in_group, prev_code,
                 group_table, cumulative_offset, group_pos, encoded_data, out_file,
                 pc, err, record_codes, returned>>

NextFlags == FlagsStep

SpecFlags == InitFlags /\ [][NextFlags]_vars

\* ------------------------------------------------------ reading the state
\* The codepoint and the name cell of a row that was read.
CodeOf(row) == ParseInt(Cells(row)[1], 16).value
NameOf(row) == Cells(row)[2]

LastOf(s) == s[Len(s)]
SeqSet(s) == {s[i] : i \in 1..Len(s)}

RECURSIVE SumSeq(_)
SumSeq(s) == IF s = <<>> THEN 0 ELSE Head(s) + SumSeq(Tail(s))

\* The main loop read one more row and went on.
Accepted == pc = "rows" /\ pc' = "rows" /\ Len(rows') = Len(rows) + 1

\* The row that added record k: the first row read with that codepoint.
RecordRow(k) ==
  rows[SetMin({i \in 1..Len(rows) : CodeOf(rows[i]) = record_codes[k]})]

\* Record k of the character table, and the number its index field f holds
\* (1 name, 2 decomposition, 3 numeric value, 4 old name, 5 comment,
\* 6 uppercase, 7 lowercase, 8 titlecase).
RecordBytes(k) == SubSeq(char_data_table, 28 * (k - 1) + 1, 28 * k)
IndexField(rec, f) == FromBytes(SubSeq(rec, 3 * f, 3 * f + 2))

\* The cell an index field is made from.
FieldCell == <<2, 6, 9, 11, 12, 13, 14, 15>>

\* Entry i of the serialized group table, and its fields.
EntryBytes(table, i) == SubSeq(table, 13 * (i - 1) + 1, 13 * i)
EntryStart(e) == FromBytes(SubSeq(e, 1, 4))
EntryEnd(e) == FromBytes(SubSeq(e, 5, 8))
EntryOffset(e) == FromBytes(SubSeq(e, 9, 12))

\* The bytes of the string stored at index ix of string table st: the length
\* byte at ix says how many bytes follow it.
PoolEntry(st, ix) ==
  SubSeq(st.buf, ix - st.elided + 2, ix - st.elided + 1 + st.buf[ix - st.elided + 1])

\* The number of bytes the entries of the strings in S take in a string
\* table: one length byte and the encoded string each.
RECURSIVE StoredBytes(_)
StoredBytes(S) ==
  IF S = {} THEN 0
  ELSE LET s == CHOOSE x \in S : TRUE
       IN  1 + Len(Utf8(s).bytes) + StoredBytes(S \ {s})

\* ------------------------------------------------------------------ claims
\* C1, as stated: when a First row at codepoint F is followed by a Last row
\* at codepoint L, reading the Last row appends exactly one group
\* (USE_PREV_VALUE, F, L).
C1_GroupStartsAtFirst ==
  [][(pc = "rows" /\ Len(rows') = Len(rows) + 1 /\ Len(rows) >= 1
      /\ IsFirst(NameOf(LastOf(rows))) /\ IsLast(NameOf(LastOf(rows')))
      /\ CodeOf(LastOf(rows)) < CodeOf(LastOf(rows')))
     => groups' = Append(groups, Group(USE_PREV_VALUE, CodeOf(LastOf(rows)),
                                       CodeOf(LastOf(rows'))))]_vars

\* C1, amended: when a First row at codepoint F is followed by a Last row at
\* codepoint L, reading the Last row appends exactly one group
\* (USE_PREV_VALUE, F + 1, L): the group starts one past the First row.
C1_GroupStartsAfterFirst ==
  [][(pc = "rows" /\ Len(rows') = Len(rows) + 1 /\ Len(rows) >= 1
      /\ IsFirst(NameOf(LastOf(rows))) /\ IsLast(NameOf(LastOf(rows')))
      /\ CodeOf(LastOf(rows)) < CodeOf(LastOf(rows')))
     => /\ pc' = "rows"
        /\ groups' = Append(groups, Group(USE_PREV_VALUE, CodeOf(LastOf(rows)) + 1,
                                          CodeOf(LastOf(rows'))))]_vars

C1_Witness ==
  /\ pc = "rows"
  /\ Len(rows) >= 2
  /\ IsFirst(NameOf(rows[Len(rows) - 1]))
  /\ IsLast(NameOf(LastOf(rows)))
  /\ CodeOf(LastOf(rows)) > CodeOf(rows[Len(rows) - 1]) + 1
  /\ groups # <<>>
  /\ LastOf(groups).kind = USE_PREV_VALUE

\* C2: in every group of kind USE_PREV_VALUE, the codepoint before its start
\* is the codepoint of a First row that added a character record, and it is
\* not inside the group.
C2_GroupFollowsItsRecord ==
  \A i \in 1..Len(groups) :
    groups[i].kind = USE_PREV_VALUE =>
      /\ groups[i].start - 1 \in SeqSet(record_codes)
      /\ \E j \in 1..Len(rows) :
           CodeOf(rows[j]) = groups[i].start - 1 /\ IsFirst(NameOf(rows[j]))
      /\ ~(groups[i].start - 1 \in groups[i].start..groups[i].end)

C2_Witness ==
  /\ pc = "done"
  /\ \E i \in 1..Len(groups) :
       groups[i].kind = USE_PREV_VALUE /\ groups[i].end > groups[i].start

\* C3: after rows that were all accepted and leave no range open, every
\* codepoint from the first row to the last is the codepoint of exactly one
\* character record or inside exactly one group, never both, and the group
\* starts are strictly ascending.
C3_Partition ==
  (pc # "failed" /\ ~in_group /\ rows # <<>>) =>
    /\ \A cp \in CodeOf(rows[1])..CodeOf(LastOf(rows)) :
         Cardinality({i \in 1..Len(record_codes) : record_codes[i] = cp})
         + Cardinality({i \in 1..Len(groups) : cp \in groups[i].start..groups[i].end})
         = 1
    /\ \A i \in 1..Len(groups) : \A j \in 1..Len(groups) :
         i < j => groups[i].start < groups[j].start

C3_Witness ==
  /\ pc = "done"
  /\ ~in_group
  /\ \E i \in 1..Len(groups) : groups[i].kind = NO_VALUE
  /\ \E i \in 1..Len(groups) : groups[i].kind = USE_PREV_VALUE
  /\ Len(record_codes) >= 2

\* C4: when a row at codepoint c is accepted after a row at p with no range
\* open, a gap (c > p + 1) appends exactly the group (NO_VALUE, p + 1, c - 1)
\* and no record has a codepoint in the gap, and no gap (c = p + 1) appends
\* nothing; the first row appends no group, and no group starts at or before
\* the first row.
C4_GapGroup ==
  [][Accepted =>
       /\ (rows # <<>> /\ ~in_group /\ CodeOf(LastOf(rows')) > CodeOf(LastOf(rows)) + 1)
            => /\ groups' = Append(groups, Group(NO_VALUE, CodeOf(LastOf(rows)) + 1,
                                                 CodeOf(LastOf(rows')) - 1))
               /\ \A i \in 1..Len(record_codes') :
                    ~(record_codes'[i] \in
                        (CodeOf(LastOf(rows)) + 1)..(CodeOf(LastOf(rows')) - 1))
       /\ (rows # <<>> /\ ~in_group /\ CodeOf(LastOf(rows')) = CodeOf(LastOf(rows)) + 1)
            => groups' = groups
       /\ rows = <<>> => groups' = <<>>
       /\ \A i \in 1..Len(groups') : groups'[i].start > CodeOf(rows'[1])]_vars

C4_Witness ==
  /\ pc = "rows"
  /\ Len(rows) >= 2
  /\ groups # <<>>
  /\ LastOf(groups) = Group(NO_VALUE, CodeOf(rows[Len(rows) - 1]) + 1,
                            CodeOf(LastOf(rows)) - 1)
  /\ LastOf(groups).end > LastOf(groups).start
  /\ LastOf(record_codes) = CodeOf(LastOf(rows))

\* C5: in the serialized group table, the cumulative offset field of every
\* entry is the sum of end - start + 1 over the entries before it.
C5_CumulativeOffset ==
  \A i \in 1..(Len(group_table) \div 13) :
    EntryOffset(EntryBytes(group_table, i))
    = SumSeq([j \in 1..(i - 1) |->
               EntryEnd(EntryBytes(group_table, j))
               - EntryStart(EntryBytes(group_table, j)) + 1])

C5_Witness ==
  /\ pc = "done"
  /\ Len(group_table) = 26
  /\ EntryOffset(EntryBytes(group_table, 2)) >= 2

\* C6: in the finished container the three length fields of the header are
\* 13 times the number of groups, 28 times the number of records and the
\* byte length of the string table, and the three sections follow the 20 byte
\* header in that order.
C6_SectionLengths ==
  pc \in {"write", "done"} =>
    /\ SubSeq(encoded_data, 1, 8) = Str(<<"U", "T", "F", "D", "U", "M", "P", "!">>)
    /\ FromBytes(SubSeq(encoded_data, 9, 12)) = 13 * Len(groups)
    /\ FromBytes(SubSeq(encoded_data, 13, 16)) = 28 * Len(record_codes)
    /\ FromBytes(SubSeq(encoded_data, 17, 20)) = Len(string_table.buf)
    /\ encoded_data = SubSeq(encoded_data, 1, 20) \o group_table \o char_data_table
                      \o string_table.buf
    /\ Len(group_table) = 13 * Len(groups)
    /\ Len(char_data_table) = 28 * Len(record_codes)

C6_Witness ==
  /\ pc = "done"
  /\ Len(groups) >= 1
  /\ Len(record_codes) >= 2
  /\ 13 * Len(groups) # 28 * Len(record_codes)
  /\ Len(string_table.buf) # 28 * Len(record_codes)

\* C7: a push of text that an earlier push stored returns the index of the
\* first push of that text and leaves the buffer as it is; a push of text not
\* yet stored appends exactly one entry, the length byte and the bytes.
C7_PushDedup ==
  [][Len(returned') = Len(returned) + 1 =>
       IF \E i \in 1..Len(returned) : returned[i].s = LastOf(returned').s
       THEN /\ string_table'.buf = string_table.buf
            /\ LastOf(returned').index
               = returned[SetMin({i \in 1..Len(returned) :
                                    returned[i].s = LastOf(returned').s})].index
       ELSE /\ string_table'.buf
               = string_table.buf \o <<Len(Utf8(LastOf(returned').s).bytes)>>
                 \o Utf8(LastOf(returned').s).bytes
            /\ \A i \in 1..Len(returned) :
                 returned[i].index # LastOf(returned').index]_vars

C7_Witness ==
  /\ pc = "rows"
  /\ Len(returned) >= 3
  /\ returned[1].s = LastOf(returned).s
  /\ returned[2].s # returned[1].s
  /\ returned[1].index = LastOf(returned).index

\* C8: in every record each of the seven optional index fields is 0xffffff
\* exactly when its cell is empty, the name index never is, and once a push
\* has stored a string at offset 0xffffff or above the run has failed.
C8_Sentinel ==
  /\ \A k \in 1..Len(record_codes) :
       /\ IndexField(RecordBytes(k), 1) # INVALID_INDEX
       /\ \A f \in 2..8 :
            (IndexField(RecordBytes(k), f) = INVALID_INDEX)
            <=> (Cells(RecordRow(k))[FieldCell[f]] = <<>>)
  /\ (\E s \in DOMAIN string_table.map : string_table.map[s] >= INVALID_INDEX)
       => (pc = "failed" /\ err = "index_overflow")

C8_Witness ==
  /\ pc = "failed"
  /\ err = "index_overflow"
  /\ \E s \in DOMAIN string_table.map : string_table.map[s] = INVALID_INDEX
  /\ Len(record_codes) >= 1
  /\ \E f \in 2..8 : IndexField(RecordBytes(1), f) = INVALID_INDEX
  /\ \E f \in 2..8 : IndexField(RecordBytes(1), f) = INVALID_INDEX - 2

\* C9: in every record the high four bits of the last byte are the digit
\* value of the row when its digit cell is filled and 0xf when it is empty.
C9_DigitNibble ==
  \A k \in 1..Len(record_codes) :
    RecordBytes(k)[28] \div 16
    = IF Cells(RecordRow(k))[8] = <<>> THEN 15
      ELSE ParseInt(Cells(RecordRow(k))[8], 10).value

\* C10: in every record the low four bits of the last byte are the decimal
\* digit value of the row when its decimal digit cell is filled and 0xf when
\* it is empty, whatever the digit cell holds.
C10_DecimalDigitNibble ==
  \A k \in 1..Len(record_codes) :
    RecordBytes(k)[28] % 16
    = IF Cells(RecordRow(k))[7] = <<>> THEN 15
      ELSE ParseInt(Cells(RecordRow(k))[7], 10).value

C10_Witness ==
  /\ Len(record_codes) = 2
  /\ Cells(RecordRow(1))[7] # <<>> /\ Cells(RecordRow(1))[8] = <<>>
  /\ Cells(RecordRow(2))[7] = <<>> /\ Cells(RecordRow(2))[8] # <<>>
  /\ RecordBytes(1)[28] % 16 = 5
  /\ RecordBytes(2)[28] % 16 = 15

\* C11: when the input ends with a range open (the last row read is a First
\* row and no Last row follows it), the run fails and nothing is written to
\* the output file.
C11_UnterminatedRangeAborts ==
  (in_group /\ pc # "rows") => (pc = "failed" /\ out_file = <<>>)

\* C12: a row whose name has the Last form, read while no range is open,
\* makes the run fail without adding a character record.
C12_StrayLastAborts ==
  [][(pc = "rows" /\ Len(rows') = Len(rows) + 1 /\ ~in_group
      /\ StartsWith(NameOf(LastOf(rows')), Str(<<"<">>))
      /\ EndsWith(NameOf(LastOf(rows')), Str(<<",", " ", "L", "a", "s", "t", ">">>)))
     => /\ pc' = "failed"
        /\ record_codes' = record_codes
        /\ char_data_table' = char_data_table]_vars

\* C13: a row whose codepoint is not above the codepoint of the row read
\* before it, a Last row included, makes the run fail before it adds any
\* group or character record; every row that is accepted has a codepoint
\* above the one before it.
C13_StrictlyIncreasing ==
  [][(pc = "rows" /\ Len(rows') = Len(rows) + 1 /\ rows # <<>>
      /\ ParseInt(Cells(LastOf(rows'))[1], 16).ok)
     => /\ CodeOf(LastOf(rows')) <= CodeOf(LastOf(rows))
             => /\ pc' = "failed"
                /\ groups' = groups
                /\ record_codes' = record_codes
                /\ char_data_table' = char_data_table
        /\ pc' = "rows" => CodeOf(LastOf(rows')) > CodeOf(LastOf(rows))]_vars

C13_Witness ==
  /\ pc = "failed"
  /\ err = "ordering"
  /\ Len(rows) = 3
  /\ IsLast(NameOf(rows[2]))
  /\ CodeOf(rows[3]) = CodeOf(rows[2])
  /\ Len(groups) = 1
  /\ Len(record_codes) = 1

\* C14: the output file is written at most once, and only when every row was
\* read, every group serialized and the container assembled without an
\* error; a run that failed, whatever the cause, has written nothing.
C14_AllOrNothing ==
  /\ Len(out_file) <= 1
  /\ pc = "failed" => out_file = <<>>
  /\ err # "" => (pc = "failed" /\ out_file = <<>>)
  /\ out_file # <<>> =>
       /\ pc = "done"
       /\ err = ""
       /\ group_pos = Len(groups)
       /\ Len(group_table) = 13 * Len(groups)
       /\ Len(char_data_table) = 28 * Len(record_codes)
       /\ encoded_data = Container(group_table, char_data_table, string_table.buf).bytes
       /\ out_file[1] = compress(encoded_data)

C14_Witness ==
  /\ pc = "done"
  /\ Len(out_file) = 1
  /\ Len(rows) = MaxRows
  /\ groups # <<>>

\* C15: for every category (0 to 29), bidirectional category (0 to 22),
\* decomposition kind (0 to 17) and mirrored flag, the flags word is
\* category + 32 * bidi + 1024 * kind + 32768 * mirrored, and each of the four
\* is read back from its own bits (0 to 4, 5 to 9, 10 to 14, 15).
C15_FlagsLayout ==
  packed.called =>
    /\ packed.category \in 0..29 /\ packed.bidi \in 0..22 /\ packed.decomp_kind \in 0..17
    /\ packed.word = packed.category + 32 * packed.bidi + 1024 * packed.decomp_kind
                     + 32768 * (IF packed.mirrored THEN 1 ELSE 0)
    /\ packed.word % 32 = packed.category
    /\ (packed.word \div 32) % 32 = packed.bidi
    /\ (packed.word \div 1024) % 32 = packed.decomp_kind
    /\ (packed.word \div 32768 = 1) <=> packed.mirrored
    /\ packed.word < 65536

C15_Witness ==
  /\ packed.called
  /\ packed.category = 29
  /\ packed.bidi = 22
  /\ packed.decomp_kind = 17
  /\ packed.mirrored
  /\ packed.word = 50909

\* C16: while a range is open, a row whose name does not start with < and
\* end with , Last> (an ordinary name or another First row) makes the run
\* fail and adds no group; a row accepted while a range is open has that form.
C16_InRangeNeedsLast ==
  [][(pc = "rows" /\ Len(rows') = Len(rows) + 1 /\ in_group)
     => /\ ~(/\ StartsWith(NameOf(LastOf(rows')), Str(<<"<">>))
             /\ EndsWith(NameOf(LastOf(rows')),
                         Str(<<",", " ", "L", "a", "s", "t", ">">>)))
             => /\ pc' = "failed"
                /\ groups' = groups
                /\ record_codes' = record_codes
        /\ pc' = "rows"
             => /\ StartsWith(NameOf(LastOf(rows')), Str(<<"<">>))
                /\ EndsWith(NameOf(LastOf(rows')),
                            Str(<<",", " ", "L", "a", "s", "t", ">">>))]_vars

C16_Witness ==
  /\ pc = "failed"
  /\ err = "range_schema"
  /\ in_group
  /\ Len(rows) = 2
  /\ IsFirst(NameOf(rows[1]))
  /\ IsFirst(NameOf(rows[2]))
  /\ CodeOf(rows[2]) > CodeOf(rows[1])
  /\ groups = <<>>

\* C17: an accepted row that closes a range adds no character record and
\* leaves no range open; any other accepted row adds exactly one record, and
\* a First row among them adds it under its name without the marker and
\* opens a range. So the number of records is the number of rows less the
\* number of USE_PREV_VALUE groups, and the records are in ascending order of
\* codepoint.
C17_OneRecordPerRow ==
  [][Accepted =>
       /\ in_group =>
            /\ record_codes' = record_codes
            /\ char_data_table' = char_data_table
            /\ ~in_group'
       /\ ~in_group =>
            /\ record_codes' = Append(record_codes, CodeOf(LastOf(rows')))
            /\ Len(char_data_table') = Len(char_data_table) + 28
            /\ SubSeq(char_data_table', 1, Len(char_data_table)) = char_data_table
            /\ in_group' <=>
                 /\ StartsWith(NameOf(LastOf(rows')), Str(<<"<">>))
                 /\ EndsWith(NameOf(LastOf(rows')),
                             Str(<<",", " ", "F", "i", "r", "s", "t", ">">>))
            /\ in_group' =>
                 PoolEntry(string_table',
                           IndexField(SubSeq(char_data_table', Len(char_data_table) + 1,
                                             Len(char_data_table) + 28), 1))
                 = Utf8(SubSeq(NameOf(LastOf(rows')), 2,
                               Len(NameOf(LastOf(rows'))) - 8)).bytes
       /\ Len(record_codes')
          = Len(rows') - Cardinality({i \in 1..Len(groups') :
                                        groups'[i].kind = USE_PREV_VALUE})
       /\ Len(char_data_table') = 28 * Len(record_codes')
       /\ \A i \in 1..Len(record_codes') : \A j \in 1..Len(record_codes') :
            i < j => record_codes'[i] < record_codes'[j]]_vars

C17_Witness ==
  /\ pc = "rows"
  /\ Len(rows) = 3
  /\ IsFirst(NameOf(rows[1]))
  /\ IsLast(NameOf(rows[2]))
  /\ ~in_group
  /\ Len(record_codes) = 2
  /\ Len(char_data_table) = 56
  /\ Cardinality({i \in 1..Len(groups) : groups[i].kind = USE_PREV_VALUE}) = 1
  /\ PoolEntry(string_table, IndexField(RecordBytes(1), 1)) = Str(<<"X">>)

\* C18: every entry of the string table is one length byte followed by that
\* many bytes, the encoding of its string, so no stored length is above 255
\* and the entries fill the buffer; no push of a string longer than 255 bytes
\* returns, and the push that fails on the length leaves the buffer and the
\* map as they were.
C18_LengthByte ==
  [][/\ \A s \in DOMAIN string_table'.map :
          /\ string_table'.map[s] >= string_table'.elided
          /\ string_table'.buf[string_table'.map[s] - string_table'.elided + 1]
             = Len(Utf8(s).bytes)
          /\ Len(Utf8(s).bytes) <= 255
          /\ PoolEntry(string_table', string_table'.map[s]) = Utf8(s).bytes
     /\ Len(string_table'.buf) = StoredBytes(DOMAIN string_table'.map)
     /\ \A i \in 1..Len(returned') : Len(Utf8(returned'[i].s).bytes) <= 255
     /\ (pc' = "failed" /\ err' = "oversize_string") => string_table' = string_table
     /\ (\A s \in PoolStrings : Len(Utf8(s).bytes) > 255 => ~(s \in DOMAIN string_table'.map))
    ]_vars

C18_Witness ==
  /\ pc = "failed"
  /\ err = "oversize_string"
  /\ Len(returned) >= 2
  /\ \E s \in DOMAIN string_table.map : Len(Utf8(s).bytes) = 255
  /\ \E s \in DOMAIN string_table.map : Len(Utf8(s).bytes) = 2 /\ Len(s) = 1
  /\ string_table.elided = 0

\* C19: after any pushes that returned, every index a push of s returned is
\* the offset of a length byte in the buffer, and that byte and the bytes it
\* counts are the encoding of s; the index of a string is the number of bytes
\* the distinct strings pushed before it take (one length byte and the
\* encoding each), counted from the size the table started with; and a push
\* leaves the bytes already in the buffer as they were.
C19_IndexRoundTrip ==
  [][/\ \A i \in 1..Len(returned') :
          /\ FromBytes(returned'[i].index) >= string_table'.elided
          /\ FromBytes(returned'[i].index) < BufLen(string_table')
          /\ string_table'.buf[FromBytes(returned'[i].index) - string_table'.elided + 1]
             = Len(Utf8(returned'[i].s).bytes)
          /\ PoolEntry(string_table', FromBytes(returned'[i].index))
             = Utf8(returned'[i].s).bytes
          /\ FromBytes(returned'[i].index)
             = string_table'.elided
               + StoredBytes({returned'[j].s :
                                j \in 1..(SetMin({k \in 1..Len(returned') :
                                                    returned'[k].s = returned'[i].s}) - 1)})
     /\ SubSeq(string_table'.buf, 1, Len(string_table.buf)) = string_table.buf
    ]_vars

C19_Witness ==
  /\ pc = "rows"
  /\ string_table.elided = 0
  /\ Len(returned) = 4
  /\ returned[1].s # returned[2].s
  /\ returned[3].s # returned[1].s /\ returned[3].s # returned[2].s
  /\ returned[4].s = returned[2].s
  /\ FromBytes(returned[1].index) = 0
  /\ FromBytes(returned[4].index) = 1 + Len(Utf8(returned[1].s).bytes)
  /\ FromBytes(returned[3].index) >= 5
  /\ Len(string_table.buf) > FromBytes(returned[3].index)

\* C20: after rows that were all accepted and leave no range open, the
\* position of the record of a row at codepoint c in the character table is
\* c less the codepoint of the first row less the sum of end - start + 1 over
\* the groups that start below c; and once the group table is serialized
\* that sum is the cumulative offset field of the first entry whose start is
\* above c, or the sum over all entries when there is none.
C20_LocateRecord ==
  (pc # "failed" /\ ~in_group /\ rows # <<>>) =>
    \A k \in 1..Len(record_codes) :
      /\ k - 1
         = (record_codes[k] - CodeOf(rows[1]))
           - SumSeq([i \in 1..Len(groups) |->
                      IF groups[i].start < record_codes[k]
                      THEN groups[i].end - groups[i].start + 1 ELSE 0])
      /\ pc \in {"write", "done"} =>
           k - 1
           = (record_codes[k] - CodeOf(rows[1]))
             - (IF \E i \in 1..(Len(group_table) \div 13) :
                     EntryStart(EntryBytes(group_table, i)) > record_codes[k]
                THEN EntryOffset(EntryBytes(group_table,
                       SetMin({i \in 1..(Len(group_table) \div 13) :
                                 EntryStart(EntryBytes(group_table, i)) > record_codes[k]})))
                ELSE SumSeq([i \in 1..(Len(group_table) \div 13) |->
                              EntryEnd(EntryBytes(group_table, i))
                              - EntryStart(EntryBytes(group_table, i)) + 1]))

C20_Witness ==
  /\ pc = "done"
  /\ ~in_group
  /\ Len(rows) = 3
  /\ Len(groups) = 2
  /\ groups[1].kind # groups[2].kind
  /\ Len(record_codes) = 2
  /\ record_codes[1] < groups[1].start
  /\ record_codes[2] > groups[2].end
  /\ record_codes[2] - CodeOf(rows[1]) >= 3

====
